---- MODULE Spec2Model ----
(***************************************************************************)
(* The Explore_Data notebook (hands-on/session II/2.Explore_Data.ipynb) as *)
(* a state machine.  The state is the notebook kernel's namespace (the     *)
(* names one cell leaves for the next), the archive files the load cell    *)
(* reads, and what the last executed cell printed and passed to the        *)
(* plotting library.  One action per notebook cell; the user may execute   *)
(* the cells in any order, any number of times.                            *)
(*                                                                         *)
(* Sample values are IEEE binary32 numbers m * 2^e (an archive of float32  *)
(* samples); numpy's reductions on them are modelled operation by          *)
(* operation, each correctly rounded to Precision bits, round half to      *)
(* even.  Exponent range, NaN and infinities are not modelled: every       *)
(* sample is finite and far from overflow and underflow.                   *)
(***************************************************************************)
EXTENDS Integers, Sequences, FiniteSets, TLC

\* --------------------------------------------------------------------------
\* Dyadic numbers and binary32 arithmetic
\* --------------------------------------------------------------------------

\* Significand width of the samples' dtype (float32).
Precision == 24

\* Op applied to the value of x, of x and y: an operand is evaluated once,
\* as Python evaluates the arguments of a call before the call.
With(x, Op(_)) == CHOOSE r \in {Op(v) : v \in {x}} : TRUE

With2(x, y, Op(_, _)) == CHOOSE r \in {Op(v, w) : v \in {x}, w \in {y}} : TRUE

RECURSIVE Pow2(_)
Pow2(k) == IF k <= 0 THEN 1 ELSE 2 * Pow2(k - 1)

RECURSIVE BitLen(_)
BitLen(n) == IF n <= 0 THEN 0 ELSE 1 + BitLen(n \div 2)

Abs(x) == IF x < 0 THEN -x ELSE x

\* The number m * 2^e in normal form: m odd, or m = 0 and e = 0.
RECURSIVE Norm(_, _)
Norm(m, e) ==
    IF m = 0 THEN [m |-> 0, e |-> 0]
    ELSE IF m % 2 = 0 THEN Norm(m \div 2, e + 1)
    ELSE [m |-> m, e |-> e]

Zero == [m |-> 0, e |-> 0]

Neg(a) == [m |-> -a.m, e |-> a.e]

\* Exact sum of two dyadic numbers.
ExAdd(a, b) ==
    IF a.m = 0 THEN b
    ELSE IF b.m = 0 THEN a
    ELSE LET e == IF a.e < b.e THEN a.e ELSE b.e
         IN  Norm(a.m * Pow2(a.e - e) + b.m * Pow2(b.e - e), e)

ExSub(a, b) == ExAdd(a, Neg(b))

ExMulInt(k, a) == Norm(k * a.m, a.e)


\* The non-negative number (M + s) * 2^e, 0 <= s < 1 and s > 0 iff sticky,
\* rounded to Precision significant bits, ties to even.
RoundBits(M, sticky, e) ==
    LET k == BitLen(M) - Precision
    IN  IF k <= 0 THEN Norm(M, e)
        ELSE LET q    == M \div Pow2(k)
                 r    == M % Pow2(k)
                 half == Pow2(k - 1)
                 up   == r > half \/ (r = half /\ (sticky \/ q % 2 = 1))
             IN  Norm(IF up THEN q + 1 ELSE q, e + k)

\* A dyadic number rounded to binary32.
Fl(a) == IF a.m < 0 THEN Neg(RoundBits(-a.m, FALSE, a.e))
         ELSE RoundBits(a.m, FALSE, a.e)

Representable(a) == BitLen(Abs(a.m)) <= Precision

\* The significand shifted left to exactly Precision bits, and the exponent
\* that goes with it (a # 0, representable).
Wide(a) ==
    LET s == Precision - BitLen(Abs(a.m))
    IN  [m |-> a.m * Pow2(s), e |-> a.e - s]

\* a < b for 0 < a, 0 < b.
LessPos(a, b) ==
    LET wa == Wide(a)
        wb == Wide(b)
    IN  wa.e < wb.e \/ (wa.e = wb.e /\ wa.m < wb.m)

Less(a, b) ==
    With2(a, b, LAMBDA x, y :
        IF x.m <= 0 \/ y.m <= 0
        THEN IF x.m < 0 /\ y.m < 0 THEN LessPos(Neg(y), Neg(x))
             ELSE x.m < y.m
        ELSE LessPos(x, y))

Leq(a, b) == With2(a, b, LAMBDA x, y : x = y \/ Less(x, y))

\* Bits the larger operand of a sum is shifted left before the smaller one,
\* shifted right, is added: what lies below them only decides the rounding.
GuardBits == 6

\* big + small rounded to binary32, for big > 0 of the larger exponent.
FAddPos(big, small) ==
    LET wb  == Wide(big)
        ws  == Wide(small)
        gap == wb.e - ws.e
    IN  IF gap <= GuardBits
        THEN Fl(Norm(wb.m * Pow2(gap) + ws.m, ws.e))
        ELSE LET d == Pow2(IF gap - GuardBits > Precision + 1
                           THEN Precision + 1 ELSE gap - GuardBits)
                 L == ws.m \div d
             IN  RoundBits(wb.m * Pow2(GuardBits) + L, ws.m % d # 0,
                           wb.e - GuardBits)

\* a + b rounded to binary32.
FAdd(a, b) ==
    With2(a, b, LAMBDA x, y :
        IF x.m = 0 THEN y
        ELSE IF y.m = 0 THEN x
        ELSE LET big   == IF Wide(x).e >= Wide(y).e THEN x ELSE y
                 small == IF Wide(x).e >= Wide(y).e THEN y ELSE x
             IN  IF big.m > 0 THEN FAddPos(big, small)
                 ELSE Neg(FAddPos(Neg(big), Neg(small))))

FSub(a, b) == With2(a, b, LAMBDA x, y : FAdd(x, Neg(y)))

\* Long division q, r of a numerator by n, extended bit by bit until the
\* quotient carries Precision + 2 bits or the remainder is 0.
RECURSIVE DivBits(_, _, _, _)
DivBits(q, r, n, e) ==
    IF r = 0 \/ BitLen(q) >= Precision + 2 THEN [q |-> q, r |-> r, e |-> e]
    ELSE With2(2 * q + (IF 2 * r >= n THEN 1 ELSE 0), (2 * r) % n,
               LAMBDA q2, r2 : DivBits(q2, r2, n, e - 1))

\* a / n for an integer n > 0, rounded to binary32.
FDivInt(a, n) ==
    With(a, LAMBDA x :
        LET A == Abs(x.m)
        IN  With(DivBits(A \div n, A % n, n, x.e), LAMBDA d :
                With(RoundBits(d.q, d.r # 0, d.e), LAMBDA v :
                    IF x.m < 0 THEN Neg(v) ELSE v)))

\* a * b rounded to binary32; the 48-bit product is built from 12-bit halves.
FMul(a, b) ==
    With2(a, b, LAMBDA s, t :
        LET B   == 4096
            x   == Abs(s.m)
            y   == Abs(t.m)
            xh  == x \div B
            xl  == x % B
            yh  == y \div B
            yl  == y % B
            c   == xh * yl + xl * yh
            w   == (c % B) * B + xl * yl
            hi  == xh * yh + c \div B + w \div (B * B)
            lo  == w % (B * B)
            k   == BitLen(hi)
            neg == (s.m < 0) # (t.m < 0)
            v   == IF hi = 0 THEN Norm(lo, s.e + t.e)
                   ELSE LET q    == hi * Pow2(24 - k) + lo \div Pow2(k)
                            r    == lo % Pow2(k)
                            half == Pow2(k - 1)
                        IN  RoundBits(2 * q + (IF r >= half THEN 1 ELSE 0),
                                      r # 0 /\ r # half, s.e + t.e + k - 1)
        IN  IF neg THEN Neg(v) ELSE v)

\* Digit-by-digit square root: the radicand's bit pairs from the top (i
\* counts the pairs left), then zero pairs until the root carries
\* Precision + 2 bits or the remainder is 0.
RECURSIVE SqrtBits(_, _, _, _, _)
SqrtBits(root, rem, m, i, e) ==
    IF i = 0 /\ (rem = 0 \/ BitLen(root) >= Precision + 2)
    THEN [q |-> root, r |-> rem, e |-> e]
    ELSE LET pair  == IF i > 0 THEN (m \div Pow2(2 * (i - 1))) % 4 ELSE 0
             cur   == 4 * rem + pair
             trial == 4 * root + 1
             take  == cur >= trial
         IN  With2(IF take THEN 2 * root + 1 ELSE 2 * root,
                   IF take THEN cur - trial ELSE cur,
                   LAMBDA q, r : SqrtBits(q, r, m, IF i > 0 THEN i - 1 ELSE 0,
                                          IF i > 0 THEN e ELSE e - 1))

\* sqrt(a) for a >= 0, rounded to binary32.
FSqrt(a) ==
    With(a, LAMBDA x :
        IF x.m = 0 THEN Zero
        ELSE LET m  == IF x.e % 2 = 0 THEN x.m ELSE 2 * x.m
                 e  == IF x.e % 2 = 0 THEN x.e ELSE x.e - 1
                 np == (BitLen(m) + 1) \div 2
             IN  With(SqrtBits(0, 0, m, np, e \div 2), LAMBDA d :
                     RoundBits(d.q, d.r # 0, d.e)))

\* --------------------------------------------------------------------------
\* numpy reductions on a float32 array (its samples in C order)
\* --------------------------------------------------------------------------

\* numpy's unrolled summation keeps this many partial sums (arrays of 8 to
\* 128 samples; longer arrays are split recursively and are not modelled).
Unroll == 8

\* res = 0.; for i in lo..hi: res += a[i]
RECURSIVE SumFrom(_, _, _, _)
SumFrom(res, a, lo, hi) ==
    IF lo > hi THEN res
    ELSE With(FAdd(res, a[lo]), LAMBDA s : SumFrom(s, a, lo + 1, hi))

\* The j-th partial sum of the unrolled loop: a[j] + a[j+8] + a[j+16] ...
\* over the first `full` samples.
RECURSIVE Lane(_, _, _, _)
Lane(res, a, i, full) ==
    IF i > full THEN res
    ELSE With(FAdd(res, a[i]), LAMBDA s : Lane(s, a, i + Unroll, full))

\* numpy's pairwise summation of a float32 array of at most 128 samples.
PairwiseSum(a) ==
    With(a, LAMBDA x :
        LET n    == Len(x)
            full == n - (n % Unroll)
        IN  IF n < Unroll THEN SumFrom(Zero, x, 1, n)
            ELSE With([j \in 1..Unroll |-> Lane(x[j], x, j + Unroll, full)],
                      LAMBDA r :
                          SumFrom(FAdd(FAdd(FAdd(r[1], r[2]), FAdd(r[3], r[4])),
                                       FAdd(FAdd(r[5], r[6]), FAdd(r[7], r[8]))),
                                  x, full + 1, n)))

RECURSIVE FoldMin(_, _, _)
FoldMin(best, a, i) ==
    IF i > Len(a) THEN best
    ELSE With(IF Less(a[i], best) THEN a[i] ELSE best,
              LAMBDA m : FoldMin(m, a, i + 1))

RECURSIVE FoldMax(_, _, _)
FoldMax(best, a, i) ==
    IF i > Len(a) THEN best
    ELSE With(IF Less(best, a[i]) THEN a[i] ELSE best,
              LAMBDA m : FoldMax(m, a, i + 1))

\* ndarray.min(), .max() of a non-empty array
NpMin(a) == With(a, LAMBDA x : FoldMin(x[1], x, 2))

\* A variant: the maximum taken with .min(), as after copying the line above.
NpMaxSwapped(a) == NpMin(a)

NpMax(a) == With(a, LAMBDA x : FoldMax(x[1], x, 2))

\* A variant: the sum of the samples, not divided by their number.
NpMeanUndivided(a) == PairwiseSum(a)

\* ndarray.mean(): the float32 sum divided by the number of samples
NpMean(a) == With(a, LAMBDA x : FDivInt(PairwiseSum(x), Len(x)))

\* A variant: the root mean square, the mean not subtracted.
NpStdUncentered(a) ==
    With(a, LAMBDA x :
        With([i \in 1..Len(x) |-> FMul(x[i], x[i])],
             LAMBDA sq : FSqrt(FDivInt(PairwiseSum(sq), Len(x)))))

\* ndarray.std(): sqrt(mean(abs(x - x.mean())**2))
NpStd(a) ==
    With2(a, NpMean(a), LAMBDA x, mu :
        With([i \in 1..Len(x) |->
                 With(FSub(x[i], mu), LAMBDA dev : FMul(dev, dev))],
             LAMBDA sq : FSqrt(FDivInt(PairwiseSum(sq), Len(x)))))

\* --------------------------------------------------------------------------
\* Values: samples, arrays, archive files
\* --------------------------------------------------------------------------

\* A name the kernel has not bound; an absent argument or result.
Undefined == [tag |-> "undefined"]

None == [tag |-> "none"]

NoFigure == [tag |-> "nofigure"]

\* float32 samples: 5.0, 1.3333337 (11184814 * 2^-23), 12.25, 300.5, 844.0
Five == Norm(5, 0)

Third == Norm(11184814, -23)

Low == Norm(49, -2)

Mid == Norm(601, -1)

High == Norm(844, 0)

\* Largest number of samples of the generated grids.
MaxCells == 3

Shapes == {s \in (1..MaxCells) \X (1..MaxCells) : s[1] * s[2] <= MaxCells}

\* The rows-by-cols float32 array whose samples, in C order, repeat pat.
Grid(rows, cols, pat) ==
    [shape |-> <<rows, cols>>,
     vals  |-> [i \in 1..(rows * cols) |-> pat[((i - 1) % Len(pat)) + 1]]]

\* The `data` arrays of the archives: the three samples repeated in every
\* shape, the constant grids of one row, and the 4 by 4 grid of 5.0.
Grids == {Grid(s[1], s[2], <<Mid, Low, High>>) : s \in Shapes}
             \cup {Grid(1, n, <<Third>>) : n \in 1..MaxCells}
             \cup {Grid(4, 4, <<Five>>)}

\* lon_lat: row 0 = [min latitude, max latitude],
\*          row 1 = [min longitude, max longitude]
LonLat(lat_min, lat_max, lon_min, lon_max) ==
    [shape |-> <<2, 2>>, vals |-> <<lat_min, lat_max, lon_min, lon_max>>]

RegionA == LonLat(Norm(35, 0), Norm(73, -1), Norm(-84, 0), Norm(-82, 0))

RegionB == LonLat(Norm(40, 0), Norm(41, 0), Norm(-75, 0), Norm(-147, -1))

\* What a path may hold: nothing, a text file, a bare .npy array, or an
\* .npz archive with some of the members data and lon_lat.
Archive(members) == [kind |-> "npz", members |-> members]

WellFormed ==
    {Archive([data |-> g, lon_lat |-> RegionA]) : g \in Grids}
        \cup {Archive([data |-> Grid(1, 2, <<Low, High>>), lon_lat |-> RegionB])}

Malformed ==
    {[kind |-> "missing"], [kind |-> "text"],
     [kind |-> "npy", array |-> Grid(1, 2, <<Low, High>>)],
     Archive([data |-> Grid(1, 2, <<Low, High>>)]),
     Archive([lon_lat |-> RegionA]),
     Archive([elevation |-> Grid(1, 1, <<Five>>)])}

\* Archives with both members whose shapes or values break the format: data
\* of one dimension, data without columns, bounds of one dimension, of one
\* row, of three rows, and bounds whose latitudes are out of order.
Misshapen ==
    {Archive([data    |-> [shape |-> <<3>>, vals |-> <<Mid, Low, High>>],
              lon_lat |-> RegionA]),
     Archive([data    |-> [shape |-> <<1, 0>>, vals |-> <<>>],
              lon_lat |-> RegionA]),
     Archive([data    |-> Grid(1, 1, <<Third>>),
              lon_lat |-> [shape |-> <<4>>,
                           vals  |-> RegionA.vals]]),
     Archive([data    |-> Grid(1, 1, <<Third>>),
              lon_lat |-> [shape |-> <<1, 2>>,
                           vals  |-> <<Norm(35, 0), Norm(73, -1)>>]]),
     Archive([data    |-> Grid(1, 1, <<Third>>),
              lon_lat |-> [shape |-> <<3, 2>>,
                           vals  |-> RegionA.vals \o <<Zero, Zero>>]]),
     Archive([data    |-> Grid(1, 1, <<Third>>),
              lon_lat |-> LonLat(Norm(73, -1), Norm(35, 0),
                                 Norm(-84, 0), Norm(-82, 0))])}

RECURSIVE SetToSeq(_)
SetToSeq(S) ==
    IF S = {} THEN <<>>
    ELSE LET f == CHOOSE f \in S : TRUE IN <<f>> \o SetToSeq(S \ {f})

\* Every file content of the model, numbered.
Contents == SetToSeq(Malformed \cup WellFormed \cup Misshapen)

\* The disk: path i holds the content numbered Disk[i].
Disk == [i \in 1..Len(Contents) |-> i]

Paths == {[path |-> i] : i \in 1..Len(Contents)}

\* --------------------------------------------------------------------------
\* Library calls the cells make
\* --------------------------------------------------------------------------

Ok(v) == [ok |-> TRUE, value |-> v]

\* An exception: its class, the text str(e) gives, and the name, member or
\* path the text quotes.
Raise(type, text, about) ==
    [ok |-> FALSE, exc |-> [type |-> type, text |-> text, about |-> about]]

NameError(name) == Raise("NameError", "name is not defined", [name |-> name])

\* np.load(file)
NpLoad(disk, file) ==
    LET f == Contents[disk[file.path]]
    IN  CASE f.kind = "missing" ->
               Raise("FileNotFoundError",
                     "[Errno 2] No such file or directory", file)
          [] f.kind = "text" ->
               Raise("ValueError",
                     "Cannot load file containing pickled data when allow_pickle=False",
                     None)
          [] f.kind = "npy" -> Ok([kind |-> "ndarray", array |-> f.array])
          [] f.kind = "npz" -> Ok([kind |-> "NpzFile", members |-> f.members])

\* A variant: the KeyError does not name the member asked for.
GetItemQuiet(loaded, name) ==
    IF loaded.kind = "NpzFile"
    THEN IF name \in DOMAIN loaded.members THEN Ok(loaded.members[name])
         ELSE Raise("KeyError", "", None)
    ELSE Raise("IndexError",
               "only integers, slices, ellipsis, numpy.newaxis and integer or boolean arrays are valid indices",
               None)

\* data[name], for what np.load returned
GetItem(loaded, name) ==
    IF loaded.kind = "NpzFile"
    THEN IF name \in DOMAIN loaded.members THEN Ok(loaded.members[name])
         ELSE Raise("KeyError", "is not a file in the archive", [name |-> name])
    ELSE Raise("IndexError",
               "only integers, slices, ellipsis, numpy.newaxis and integer or boolean arrays are valid indices",
               None)

\* actual_data.min(), actual_data.max(): an empty array has no minimum
ArrMin(a) ==
    IF Len(a.vals) = 0
    THEN Raise("ValueError",
               "zero-size array to reduction operation minimum which has no identity",
               None)
    ELSE Ok(NpMin(a.vals))

ArrMax(a) ==
    IF Len(a.vals) = 0
    THEN Raise("ValueError",
               "zero-size array to reduction operation maximum which has no identity",
               None)
    ELSE Ok(NpMax(a.vals))

\* actual_data.mean(), actual_data.std()
ArrMean(a) == NpMean(a.vals)

ArrStd(a) == NpStd(a.vals)

\* A variant: np.linspace(start, stop, num, endpoint=False), whose step is
\* (stop - start) / num and whose last sample lies one step below stop.
LinspaceOpen(start, stop, num) ==
    [i \in 1..num |->
        [num |-> ExAdd(ExMulInt(num, start),
                       ExMulInt(i - 1, ExSub(stop, start))),
         den |-> num]]

\* np.linspace(start, stop, num): start + i * step for step = (stop - start)
\* / (num - 1), and the last sample set to stop.  Each sample is kept as the
\* exact fraction num / den; the rounding of the inner samples to float64 is
\* not modelled.
Linspace(start, stop, num) ==
    [i \in 1..num |->
        IF i = num
        THEN [num |-> ExMulInt(num - 1, stop), den |-> num - 1]
        ELSE [num |-> ExAdd(ExMulInt(num - 1, start),
                            ExMulInt(i - 1, ExSub(stop, start))),
              den |-> num - 1]]

\* --------------------------------------------------------------------------
\* The cells
\* --------------------------------------------------------------------------

\* What a cell prints.
Text(t) == [kind |-> "text", text |-> t]

Stat(label, value) == [kind |-> "stat", label |-> label, value |-> value]

\* A variant: the message without str(e).
ErrorMsgBare(file, exc) ==
    [kind  |-> "error",
     text  |-> "Error: Failed to load or process data from",
     file  |-> file,
     cause |-> [text |-> "", about |-> None]]

\* f"Error: Failed to load or process data from '{data_file}'. {str(e)}"
ErrorMsg(file, exc) ==
    [kind  |-> "error",
     text  |-> "Error: Failed to load or process data from",
     file  |-> file,
     cause |-> [text |-> exc.text, about |-> exc.about]]

MsgLoaded == Text("You have successfully loaded your data and metadata.")

MsgDefault ==
    Text("You have successfully plotted your data with the default range.")

MsgMinMax ==
    Text("You have successfully replotted your data with the min-max range.")

MsgFixed ==
    Text("You have successfully replotted your data with the range 0 to 3000.")

\* The four statistics lines.
StatLines(max_slope, min_slope, avg_slope, std_slope) ==
    <<Stat("Maximum slope value", max_slope),
      Stat("Minimum slope value", min_slope),
      Stat("Average slope value", avg_slope),
      Stat("Standard deviation of slope values", std_slope)>>

\* A cell under execution: the kernel's names, what has been printed, the
\* figure under construction, the bounds read from metadata, what np.load
\* returned, and the exception raised in the try block (None while none
\* was).  The statements of a try block run in order; once one has raised,
\* the rest are skipped.
Start(ns) ==
    [ns |-> ns, out |-> <<>>, fig |-> NoFigure, b |-> None, data |-> None,
     exc |-> None]

Fail(c, raisedBy) == [c EXCEPT !.exc = raisedBy.exc]

\* print(msg)
Say(c, msg) ==
    IF c.exc # None THEN c ELSE [c EXCEPT !.out = Append(c.out, msg)]

\* A variant: `except KeyError as e`, which lets every other exception
\* leave the cell.
HandlerKeyError(c) ==
    [ns     |-> c.ns,
     fig    |-> c.fig,
     out    |-> IF c.exc # None /\ c.exc.type = "KeyError"
                   /\ c.ns.data_file # Undefined
                THEN Append(c.out, ErrorMsg(c.ns.data_file, c.exc))
                ELSE c.out,
     raised |-> IF c.exc = None THEN None
                ELSE IF c.exc.type # "KeyError" THEN c.exc
                ELSE IF c.ns.data_file = Undefined
                THEN NameError("data_file").exc
                ELSE None]

\* A variant: `except IndexError as e`.
HandlerIndexError(c) ==
    [ns     |-> c.ns,
     fig    |-> c.fig,
     out    |-> IF c.exc # None /\ c.exc.type = "IndexError"
                   /\ c.ns.data_file # Undefined
                THEN Append(c.out, ErrorMsg(c.ns.data_file, c.exc))
                ELSE c.out,
     raised |-> IF c.exc = None THEN None
                ELSE IF c.exc.type # "IndexError" THEN c.exc
                ELSE IF c.ns.data_file = Undefined
                THEN NameError("data_file").exc
                ELSE None]

\* except Exception as e: print(f"Error: ... '{data_file}'. {str(e)}")
\* The message reads data_file: with data_file unbound the handler itself
\* raises, and that exception leaves the cell.  The outcome of the cell:
\* the kernel's names afterwards, what was printed, the figure built, and
\* the exception that left the cell.
Handler(c) ==
    [ns     |-> c.ns,
     fig    |-> c.fig,
     out    |-> IF c.exc # None /\ c.ns.data_file # Undefined
                THEN Append(c.out, ErrorMsg(c.ns.data_file, c.exc))
                ELSE c.out,
     raised |-> IF c.exc # None /\ c.ns.data_file = Undefined
                THEN NameError("data_file").exc
                ELSE None]

\* data = np.load(data_file)
LoadStmt(c, disk) ==
    IF c.exc # None THEN c
    ELSE IF ~c.ns.imported THEN Fail(c, NameError("np"))
    ELSE IF c.ns.data_file = Undefined THEN Fail(c, NameError("data_file"))
    ELSE With(NpLoad(disk, c.ns.data_file), LAMBDA r :
             IF ~r.ok THEN Fail(c, r) ELSE [c EXCEPT !.data = r.value])

\* A variant: actual_data is bound only while the kernel has none.
ActualDataStmtKeep(c) ==
    IF c.exc # None THEN c
    ELSE With(GetItem(c.data, "data"), LAMBDA r :
             IF ~r.ok THEN Fail(c, r)
             ELSE IF c.ns.actual_data # Undefined THEN c
             ELSE [c EXCEPT !.ns.actual_data = r.value])

\* actual_data = data["data"]
ActualDataStmt(c) ==
    IF c.exc # None THEN c
    ELSE With(GetItem(c.data, "data"), LAMBDA r :
             IF ~r.ok THEN Fail(c, r)
             ELSE [c EXCEPT !.ns.actual_data = r.value])

\* metadata = data["lon_lat"]
MetadataStmt(c) ==
    IF c.exc # None THEN c
    ELSE With(GetItem(c.data, "lon_lat"), LAMBDA r :
             IF ~r.ok THEN Fail(c, r)
             ELSE [c EXCEPT !.ns.metadata = r.value])

\* The load cell.
LoadCell(ns, disk) ==
    LET s1 == With(Start(ns), LAMBDA c : LoadStmt(c, disk))
        s2 == With(s1, ActualDataStmt)
        s3 == With(s2, MetadataStmt)
        s4 == With(s3, LAMBDA c : Say(c, MsgLoaded))
    IN  With(s4, Handler)

\* cmap_instance = plt.get_cmap("inferno")
GetCmap(c) ==
    IF c.exc # None THEN c
    ELSE IF ~c.ns.imported THEN Fail(c, NameError("plt"))
    ELSE c

\* metadata[i][j], for an array of one or two dimensions
Index2(md, i, j) ==
    IF Len(md.shape) # 2
    THEN Raise("IndexError", "invalid index to scalar variable.", None)
    ELSE IF i >= md.shape[1] \/ j >= md.shape[2]
    THEN Raise("IndexError", "index is out of bounds", None)
    ELSE Ok(md.vals[i * md.shape[2] + j + 1])

\* lat_min = metadata[0][0]; lat_max = metadata[0][1]
\* lon_min = metadata[1][0]; lon_max = metadata[1][1]
ExtractBounds(c) ==
    IF c.exc # None THEN c
    ELSE IF c.ns.metadata = Undefined THEN Fail(c, NameError("metadata"))
    ELSE IF ~Index2(c.ns.metadata, 0, 0).ok
    THEN Fail(c, Index2(c.ns.metadata, 0, 0))
    ELSE IF ~Index2(c.ns.metadata, 0, 1).ok
    THEN Fail(c, Index2(c.ns.metadata, 0, 1))
    ELSE IF ~Index2(c.ns.metadata, 1, 0).ok
    THEN Fail(c, Index2(c.ns.metadata, 1, 0))
    ELSE IF ~Index2(c.ns.metadata, 1, 1).ok
    THEN Fail(c, Index2(c.ns.metadata, 1, 1))
    ELSE [c EXCEPT !.b = [lat_min |-> Index2(c.ns.metadata, 0, 0).value,
                          lat_max |-> Index2(c.ns.metadata, 0, 1).value,
                          lon_min |-> Index2(c.ns.metadata, 1, 0).value,
                          lon_max |-> Index2(c.ns.metadata, 1, 1).value]]

\* fig, axs = plt.subplots(1, 1, figsize=(10, 8))
\* axs.set_xlim(lat_min, lat_max); axs.set_ylim(lon_min, lon_max)
\* axs.set_title(title)
\* axs.set_xlabel("Longitude (Degrees)"); axs.set_ylabel("Latitude (Degrees)")
Subplots(c, title) ==
    IF c.exc # None THEN c
    ELSE [c EXCEPT !.fig =
            [title    |-> title,
             xlim     |-> <<c.b.lat_min, c.b.lat_max>>,
             ylim     |-> <<c.b.lon_min, c.b.lon_max>>,
             xlabel   |-> "Longitude (Degrees)",
             ylabel   |-> "Latitude (Degrees)",
             image    |-> None,
             colorbar |-> None,
             ticks    |-> <<>>,
             shown    |-> FALSE]]

\* The shapes imshow takes: (M, N), (M, N, 3) and (M, N, 4).
ImageShape(shape) ==
    Len(shape) = 2 \/ (Len(shape) = 3 /\ shape[3] \in {3, 4})

\* data_fig = axs.imshow(actual_data, cmap=cmap_instance, [vmin=lo, vmax=hi,]
\*                       origin="lower",
\*                       extent=(lat_min, lat_max, lon_min, lon_max))
\* lo and hi are the names of the kernel the cell passes ("" for none).
Imshow(c, lo, hi) ==
    IF c.exc # None THEN c
    ELSE IF c.ns.actual_data = Undefined
    THEN Fail(c, NameError("actual_data"))
    ELSE IF ~ImageShape(c.ns.actual_data.shape)
    THEN Fail(c, Raise("TypeError", "Invalid shape for image data", None))
    ELSE [c EXCEPT !.fig.image =
            [data   |-> c.ns.actual_data,
             cmap   |-> "inferno",
             vmin   |-> lo,
             vmax   |-> hi,
             origin |-> "lower",
             extent |-> <<c.b.lat_min, c.b.lat_max,
                          c.b.lon_min, c.b.lon_max>>]]

\* A variant: the call passes the vmin and vmax the kernel holds.
ImshowLeftover(c) ==
    IF c.exc # None THEN c ELSE Imshow(c, c.ns.vmin, c.ns.vmax)

\* axs.imshow(...) without vmin, vmax
ImshowDefault(c) == Imshow(c, None, None)

\* axs.imshow(..., vmin=vmin, vmax=vmax, ...)
ImshowMinMax(c) ==
    IF c.exc # None THEN c ELSE Imshow(c, c.ns.vmin, c.ns.vmax)

\* fixed_vmin = 0; fixed_vmax = 600
FixedVmin == Norm(0, 0)

FixedVmax == Norm(600, 0)

\* axs.imshow(..., vmin=fixed_vmin, vmax=fixed_vmax, ...)
ImshowFixed(c) == Imshow(c, FixedVmin, FixedVmax)

\* A variant: the fraction 0.046 * columns / rows.
ColorbarInverted(c) ==
    IF c.exc # None THEN c
    ELSE IF Len(c.ns.actual_data.shape) < 2
    THEN Fail(c, Raise("IndexError", "tuple index out of range", None))
    ELSE IF c.ns.actual_data.shape[1] = 0
    THEN Fail(c, Raise("ZeroDivisionError", "float division by zero", None))
    ELSE [c EXCEPT !.fig.colorbar =
            [fraction |-> [num |-> 46 * c.ns.actual_data.shape[2],
                           den |-> 1000 * c.ns.actual_data.shape[1]],
             pad      |-> [num |-> 4, den |-> 100]]]

\* cbar = fig.colorbar(data_fig, ax=axs,
\*            fraction=0.046 * actual_data.shape[0] / actual_data.shape[1],
\*            pad=0.04)
Colorbar(c) ==
    IF c.exc # None THEN c
    ELSE IF Len(c.ns.actual_data.shape) < 2
    THEN Fail(c, Raise("IndexError", "tuple index out of range", None))
    ELSE IF c.ns.actual_data.shape[2] = 0
    THEN Fail(c, Raise("ZeroDivisionError", "float division by zero", None))
    ELSE [c EXCEPT !.fig.colorbar =
            [fraction |-> [num |-> 46 * c.ns.actual_data.shape[1],
                           den |-> 1000 * c.ns.actual_data.shape[2]],
             pad      |-> [num |-> 4, den |-> 100]]]

\* Number of colorbar ticks.
NumTicks == 8

\* cbar_ticks = np.linspace(vmin, vmax, 8); cbar.set_ticks(cbar_ticks)
TicksMinMax(c) ==
    IF c.exc # None THEN c
    ELSE [c EXCEPT !.fig.ticks = Linspace(c.ns.vmin, c.ns.vmax, NumTicks)]

\* cbar_ticks = np.linspace(fixed_vmin, fixed_vmax, 8)
\* cbar.set_ticks(cbar_ticks)
TicksFixed(c) ==
    IF c.exc # None THEN c
    ELSE [c EXCEPT !.fig.ticks = Linspace(FixedVmin, FixedVmax, NumTicks)]

\* vmin = actual_data.min(); vmax = actual_data.max()
MinMaxStmt(c) ==
    IF c.exc # None THEN c
    ELSE IF c.ns.actual_data = Undefined
    THEN Fail(c, NameError("actual_data"))
    ELSE With(ArrMin(c.ns.actual_data), LAMBDA lo :
             IF ~lo.ok THEN Fail(c, lo)
             ELSE With(ArrMax(c.ns.actual_data), LAMBDA hi :
                      IF ~hi.ok
                      THEN Fail([c EXCEPT !.ns.vmin = lo.value], hi)
                      ELSE [c EXCEPT !.ns.vmin = lo.value,
                                     !.ns.vmax = hi.value]))

\* max_slope = vmax; min_slope = vmin
\* avg_slope = actual_data.mean(); std_slope = actual_data.std()
\* print(f"Maximum slope value: {max_slope}") ... the four lines
Statistics(c) ==
    IF c.exc # None THEN c
    ELSE IF c.ns.vmax = Undefined THEN Fail(c, NameError("vmax"))
    ELSE IF c.ns.vmin = Undefined THEN Fail(c, NameError("vmin"))
    ELSE [c EXCEPT !.out = c.out \o StatLines(c.ns.vmax, c.ns.vmin,
                                              ArrMean(c.ns.actual_data),
                                              ArrStd(c.ns.actual_data))]

\* plt.show()
Show(c) == IF c.exc # None THEN c ELSE [c EXCEPT !.fig.shown = TRUE]

TitleDefault == "Selected Subregion Of Interest (Default Range)"

TitleMinMax == "Selected Subregion Of Interest (Min-Max Range)"

TitleFixed == "Selected Subregion Of Interest (Range 0 to 3000)"

\* Challenge I: the plot with the default range.
ChallengeI(ns) ==
    LET s1 == With(Start(ns), GetCmap)
        s2 == With(s1, ExtractBounds)
        s3 == With(s2, LAMBDA c : Subplots(c, TitleDefault))
        s4 == With(s3, ImshowDefault)
        s5 == With(s4, Colorbar)
        s6 == With(s5, LAMBDA c : Say(c, MsgDefault))
        s7 == With(s6, Show)
    IN  With(s7, Handler)

\* Challenge II: the plot with the range of the data.
ChallengeII(ns) ==
    LET s1  == With(Start(ns), GetCmap)
        s2  == With(s1, ExtractBounds)
        s3  == With(s2, LAMBDA c : Say(c, MsgDefault))
        s4  == With(s3, MinMaxStmt)
        s5  == With(s4, LAMBDA c : Subplots(c, TitleMinMax))
        s6  == With(s5, ImshowMinMax)
        s7  == With(s6, Colorbar)
        s8  == With(s7, TicksMinMax)
        s9  == With(s8, LAMBDA c : Say(c, MsgMinMax))
        s10 == With(s9, Statistics)
        s11 == With(s10, Show)
    IN  With(s11, Handler)

\* Challenge III: the plot with the fixed range.
ChallengeIII(ns) ==
    LET s1 == With(Start(ns), GetCmap)
        s2 == With(s1, ExtractBounds)
        s3 == With(s2, LAMBDA c : Subplots(c, TitleFixed))
        s4 == With(s3, ImshowFixed)
        s5 == With(s4, Colorbar)
        s6 == With(s5, TicksFixed)
        s7 == With(s6, LAMBDA c : Say(c, MsgFixed))
        s8 == With(s7, Statistics)
        s9 == With(s8, Show)
    IN  With(s9, Handler)

\* --------------------------------------------------------------------------
\* The notebook session
\* --------------------------------------------------------------------------

VARIABLES
    fs,           \* the number of the content each path holds
    imported,     \* the first cell has run: os, np and plt are bound
    data_file,    \* kernel names; Undefined when unbound
    actual_data,
    metadata,
    vmin,
    vmax,
    cell,         \* the cell executed last
    stdout,       \* what it printed
    figure,       \* the figure it built
    raised,       \* the exception that left it (None: it ended normally)
    failed,       \* a cell executed before the last one ended in failure
    setup,        \* the run of session III's setup.sh (see below)
    raster,       \* a call of the mosaic's pixel function (see below)
    install,      \* the runs of setup_openvisuspy.sh and the image build
    release       \* the run of openvisuspy's scripts/new_tag.sh

vars == <<fs, imported, data_file, actual_data, metadata, vmin, vmax,
          cell, stdout, figure, raised, failed, setup, raster, install, release>>

\* The kernel's names as one record. Every other name a cell binds
\* (data, lat_min, fig, cbar_ticks, max_slope ...) is bound in that cell
\* before the cell reads it, and carries nothing from cell to cell.
Kernel ==
    [imported |-> imported, data_file |-> data_file,
     actual_data |-> actual_data, metadata |-> metadata,
     vmin |-> vmin, vmax |-> vmax]

\* A kernel that has run the first cell and bound data_file, nothing else.
Fresh(file) ==
    [imported |-> TRUE, data_file |-> file,
     actual_data |-> Undefined, metadata |-> Undefined,
     vmin |-> Undefined, vmax |-> Undefined]

\* setup.sh before it is run: the number on its first line, the next line to
\* execute, the shell's PORT (0: unset), its working directory, the clone,
\* the virtual environment, the packages installed, the names exported, the
\* port the dashboard is served on (0: not served), and whether every
\* command so far has succeeded.
Script(first) ==
    [first |-> first, line |-> 1, PORT |-> 0, cwd |-> "start",
     repo |-> "absent", venv |-> "absent", packages |-> {}, env |-> {},
     serving |-> 0, ok |-> TRUE]

\* PORT=8989
DefaultPort == 8989

\* The pixel function before GDAL has called it: the arrays of the sources,
\* one per source and of one shape, and the output array.
Block(in_ar) ==
    [in_ar |-> in_ar,
     out_ar |-> [p \in 1..Len(in_ar[1]) |-> Zero],
     called |-> FALSE]

\* setup_openvisuspy.sh before its first run, in a directory where
\* ./openvisuspy is `dir` ("absent", a "checkout" of the branch, or "other"):
\* the next line to execute, the working directory, the lines the script has
\* appended to ~/.bashrc, the variables of the script's shell, what it has
\* printed, the number of the run, and the checkout and ~/.bashrc as the
\* first run left them.  `image` is the same for the Dockerfile's RUN step.
Installer(dir) ==
    [line |-> 145, dir |-> dir, cwd |-> "start", bashrc |-> <<>>,
     env |-> [exported |-> {}, PATH |-> <<>>, PYTHONPATH |-> <<>>],
     out |-> <<>>, runs |-> 1,
     once |-> [ended |-> FALSE, dir |-> "", bashrc |-> <<>>],
     image |-> [built |-> FALSE, bashrc |-> <<>>, out |-> <<>>,
                env |-> [exported |-> {}, PATH |-> <<>>, PYTHONPATH |-> <<>>]]]

NotInstalled == Installer("absent")

\* The working copy before new_tag.sh is run, with or without changes to
\* commit and with dist as an earlier build left it: the next line to
\* execute, TAG, what was printed, the commits and tags made locally, what
\* origin holds, the number of pushes that went through, whether the build
\* of this run succeeded, and what was uploaded to the package index.
Checkout(dirty, dist) ==
    [line |-> 6, TAG |-> "", out |-> <<>>, dirty |-> dirty,
     commits |-> <<>>, tags |-> {},
     origin |-> [commits |-> <<>>, tags |-> {}], pushes |-> 0,
     dist |-> dist, built |-> FALSE, index |-> {}]

NotReleased == Checkout(FALSE, {})

\* <ComplexSource> ... four of them
NumSources == 4

\* A block none of whose sources has data.
NoBlock == Block([s \in 1..NumSources |-> <<>>])

\* The notebook before any cell has run.
KernelStart ==
    /\ fs = Disk
    /\ imported = FALSE
    /\ data_file = Undefined
    /\ actual_data = Undefined
    /\ metadata = Undefined
    /\ vmin = Undefined
    /\ vmax = Undefined
    /\ cell = "none"
    /\ stdout = <<>>
    /\ figure = NoFigure
    /\ raised = None
    /\ failed = FALSE

Init ==
    /\ KernelStart
    /\ setup = Script(DefaultPort)
    /\ raster = NoBlock
    /\ install = NotInstalled
    /\ release = NotReleased

\* The cell executed last ended in failure: it printed the error message, or
\* an exception left it.
CellFailed ==
    raised # None \/ \E i \in 1..Len(stdout) : stdout[i].kind = "error"

\* A variant: a load cell that ends by writing the data it read back to the
\* path, np.savez(data_file, data=actual_data), which drops lon_lat.
FinishSaving(c, outcome) ==
    \E r \in {outcome} :
    /\ imported' = r.ns.imported
    /\ data_file' = r.ns.data_file
    /\ actual_data' = r.ns.actual_data
    /\ metadata' = r.ns.metadata
    /\ vmin' = r.ns.vmin
    /\ vmax' = r.ns.vmax
    /\ cell' = c
    /\ stdout' = r.out
    /\ figure' = r.fig
    /\ raised' = r.raised
    /\ failed' = (failed \/ CellFailed)
    /\ fs' = IF c = "load" /\ r.out = <<MsgLoaded>>
             THEN [fs EXCEPT ![r.ns.data_file.path] =
                      CHOOSE i \in 1..Len(Contents) :
                          Contents[i] = Archive([data |-> Grid(1, 2, <<Low, High>>)])]
             ELSE fs
    /\ UNCHANGED <<setup, raster, install, release>>

\* The state after a cell named c ended with outcome r.
Finish(c, outcome) ==
    \E r \in {outcome} :
    /\ imported' = r.ns.imported
    /\ data_file' = r.ns.data_file
    /\ actual_data' = r.ns.actual_data
    /\ metadata' = r.ns.metadata
    /\ vmin' = r.ns.vmin
    /\ vmax' = r.ns.vmax
    /\ cell' = c
    /\ stdout' = r.out
    /\ figure' = r.fig
    /\ raised' = r.raised
    /\ failed' = (failed \/ CellFailed)
    /\ UNCHANGED <<fs, setup, raster, install, release>>

\* import os, numpy as np, matplotlib.pyplot as plt; print(...)
Prepare ==
    Finish("prepare",
           Handler(Say(Start([Kernel EXCEPT !.imported = TRUE]),
                       Text("You have successfully prepared your environment."))))

\* data_file = "<the name the user typed>"
SetDataFile(file) ==
    Finish("name", Handler(Start([Kernel EXCEPT !.data_file = file])))

Load == Finish("load", LoadCell(Kernel, fs))

RenderDefault == Finish("I", ChallengeI(Kernel))

RenderMinMax == Finish("II", ChallengeII(Kernel))

RenderFixed == Finish("III", ChallengeIII(Kernel))

Next ==
    \/ Prepare
    \/ \E file \in Paths : SetDataFile(file)
    \/ Load
    \/ RenderDefault
    \/ RenderMinMax
    \/ RenderFixed

Spec == Init /\ [][Next]_vars

\* --------------------------------------------------------------------------
\* Session III: setup.sh
\* --------------------------------------------------------------------------

\* Numbers the first line of setup.sh may be edited to carry.
Ports == {DefaultPort, 8080, 5006}

\* The script has no `set -e`: a command that fails leaves the state as it was
\* and the shell goes on with the next line.
Advance(k, next, s) ==
    /\ setup.line = k
    /\ setup' = [s EXCEPT !.line = next]
    /\ UNCHANGED <<fs, imported, data_file, actual_data, metadata, vmin, vmax,
                   cell, stdout, figure, raised, failed, raster, install,
                   release>>

\* The outcome of a command that can succeed only when `possible`.
Outcomes(possible) == IF possible THEN BOOLEAN ELSE {FALSE}

\* PORT=8989
AssignPort ==
    Advance(1, 2, [setup EXCEPT !.PORT = setup.first])

\* git clone -b test_region_extraction https://github.com/sci-visus/openvisuspy.git
GitClone ==
    \E done \in Outcomes(setup.repo = "absent") :
        Advance(2, 3, [setup EXCEPT !.repo = IF done THEN "cloned" ELSE @,
                                    !.ok = @ /\ done])

\* cd openvisuspy
CdRepo ==
    \E done \in {setup.repo # "absent"} :
        Advance(3, 4, [setup EXCEPT !.cwd = IF done THEN "openvisuspy" ELSE @,
                                    !.ok = @ /\ done])

\* git checkout b2c6339...
GitCheckout ==
    \E done \in Outcomes(setup.cwd = "openvisuspy") :
        Advance(4, 5, [setup EXCEPT !.repo = IF done THEN "pinned" ELSE @,
                                    !.ok = @ /\ done])

\* python -m venv .venv
MakeVenv ==
    \E done \in BOOLEAN :
        Advance(5, 6, [setup EXCEPT !.venv = IF done THEN "created" ELSE @,
                                    !.ok = @ /\ done])

\* source .venv/bin/activate
Activate ==
    \E done \in Outcomes(setup.venv = "created") :
        Advance(6, 7, [setup EXCEPT !.venv = IF done THEN "active" ELSE @,
                                    !.ok = @ /\ done])

\* python -m pip install --verbose --no-cache --no-warn-script-location boto3 ...
PipInstall ==
    \E done \in BOOLEAN :
        Advance(7, 8, [setup EXCEPT
                           !.packages = IF done THEN @ \cup {"panel"} ELSE @,
                           !.ok = @ /\ done])

\* python -m pip install OpenVisus
PipInstallOpenVisus ==
    \E done \in BOOLEAN :
        Advance(8, 9, [setup EXCEPT
                           !.packages = IF done THEN @ \cup {"OpenVisus"} ELSE @,
                           !.ok = @ /\ done])

\* export VISUS_CACHE="/tmp/visus-cache/nasa3"
ExportCache ==
    Advance(9, 10, [setup EXCEPT !.env = @ \cup {"VISUS_CACHE"}])

\* export BOKEH_ALLOW_WS_ORIGIN="*"
ExportOrigin ==
    Advance(10, 11, [setup EXCEPT !.env = @ \cup {"BOKEH_ALLOW_WS_ORIGIN"}])

\* export BOKEH_RESOURCES="cdn"
ExportResources ==
    Advance(11, 12, [setup EXCEPT !.env = @ \cup {"BOKEH_RESOURCES"}])

\* export PYTHONPATH=$PWD/src
ExportPythonPath ==
    Advance(12, 14, [setup EXCEPT !.env = @ \cup {"PYTHONPATH"}])

\* A variant: the server started on the port the README names, whatever the
\* first line says.
PanelServeDefault ==
    \E done \in Outcomes(/\ setup.cwd = "openvisuspy"
                         /\ "panel" \in setup.packages) :
        Advance(14, 15, [setup EXCEPT
                             !.serving = IF done THEN DefaultPort ELSE @,
                             !.ok = @ /\ done])

\* panel serve ./src/openvisuspy/dashboards ... --port $PORT --args config.json
\* $PORT expands to the shell's PORT; with PORT unset the option has no value
\* and the command fails.
PanelServe ==
    \E done \in Outcomes(/\ setup.cwd = "openvisuspy"
                         /\ "panel" \in setup.packages
                         /\ setup.PORT # 0) :
        Advance(14, 15, [setup EXCEPT
                             !.serving = IF done THEN setup.PORT ELSE @,
                             !.ok = @ /\ done])

SetupInit ==
    /\ KernelStart
    /\ \E first \in Ports : setup = Script(first)
    /\ raster = NoBlock
    /\ install = NotInstalled
    /\ release = NotReleased

SetupNext ==
    \/ AssignPort
    \/ GitClone
    \/ CdRepo
    \/ GitCheckout
    \/ MakeVenv
    \/ Activate
    \/ PipInstall
    \/ PipInstallOpenVisus
    \/ ExportCache
    \/ ExportOrigin
    \/ ExportResources
    \/ ExportPythonPath
    \/ PanelServe

SetupSpec == SetupInit /\ [][SetupNext]_vars

\* --------------------------------------------------------------------------
\* The mosaic: the pixel function `average` of the VRT
\* --------------------------------------------------------------------------

\* <NoDataValue>-9999</NoDataValue>
NoDataValue == -9999

NoData == Norm(NoDataValue, 0)

\* Pixels in a block.
MaxPixels == 1

\* Values a source holds at a pixel: no data, two values around the no-data
\* value, and a slope.
SourceValues == {NoData, Norm(-9998, 0), Norm(-10000, 0), Norm(2, 0)}

\* np.equal(in_ar, -9999)
MaskOf(in_ar) ==
    [s \in 1..Len(in_ar) |-> [p \in 1..Len(in_ar[s]) |-> in_ar[s][p] = NoData]]

\* data = np.ma.array(in_ar, mask=np.equal(in_ar, -9999))
MaskedArray(in_ar) == [data |-> in_ar, mask |-> MaskOf(in_ar)]

\* MaskedArray.sum(axis=0, dtype="float32") at pixel p: the masked values
\* filled with 0, the sources added one after the other in float32.
RECURSIVE MaSum(_, _, _, _)
MaSum(res, data, p, s) ==
    IF s > Len(data.data) THEN res
    ELSE With(FAdd(res, IF data.mask[s][p] THEN Zero ELSE data.data[s][p]),
              LAMBDA r : MaSum(r, data, p, s + 1))

\* MaskedArray.count(axis=0) at pixel p
MaCount(data, p) == Cardinality({s \in 1..Len(data.data) : ~data.mask[s][p]})

\* A variant: np.mean(in_ar, axis=0), the mask not applied.
MaMeanOfAll(data) ==
    [p \in 1..Len(data.data[1]) |->
        FDivInt(SumFrom(Zero, [s \in 1..Len(data.data) |-> data.data[s][p]],
                        1, Len(data.data)),
                Len(data.data))]

\* np.mean(data, axis=0, out=out_ar, dtype="float32"): dsum * 1. / cnt, a
\* float64 quotient of the float32 sum, stored into the float32 out_ar; the
\* two roundings give the quotient rounded to float32 once.  Where every
\* source is masked the result is masked and its data, 0, is stored.
MaMean(data) ==
    [p \in 1..Len(data.data[1]) |->
        With(MaCount(data, p), LAMBDA cnt :
            IF cnt = 0 THEN Zero
            ELSE FDivInt(MaSum(Zero, data, p, 1), cnt))]

\* mask = np.all(data.mask, axis=0)
AllMasked(data) ==
    [p \in 1..Len(data.data[1]) |->
        \A s \in 1..Len(data.data) : data.mask[s][p]]

\* def average(in_ar, out_ar, ...): the out_ar it leaves
average(in_ar, out_ar) ==
    With(MaskedArray(in_ar), LAMBDA data :
        With2(MaMean(data), AllMasked(data), LAMBDA mean, mask :
            [p \in 1..Len(out_ar) |-> IF mask[p] THEN NoData ELSE mean[p]]))

\* GDAL calls the pixel function on a block.
CallAverage ==
    /\ ~raster.called
    /\ raster' = [raster EXCEPT !.out_ar = average(raster.in_ar, raster.out_ar),
                                !.called = TRUE]
    /\ UNCHANGED <<fs, imported, data_file, actual_data, metadata, vmin, vmax,
                   cell, stdout, figure, raised, failed, setup, install,
                   release>>

RasterInit ==
    /\ KernelStart
    /\ setup = Script(DefaultPort)
    /\ \E in_ar \in [1..NumSources -> [1..MaxPixels -> SourceValues]] :
           raster = Block(in_ar)
    /\ install = NotInstalled
    /\ release = NotReleased

RasterNext == CallAverage

RasterSpec == RasterInit /\ [][RasterNext]_vars

\* --------------------------------------------------------------------------
\* Session II: setup_openvisuspy.sh and the Dockerfile's openvisuspy step
\* --------------------------------------------------------------------------

\* Runs of the script in one directory.
MaxRuns == 2

\* echo "..." : the lines that print to the terminal, and the line that
\* follows each.
Echoed ==
    [k \in {148, 151, 157, 158, 159, 162, 163, 164, 167} |->
        CASE k = 148 -> "Removing existing openvisuspy directory..."
          [] k = 151 -> "Cloning the openvisuspy repository..."
          [] k = 157 -> "export BOKEH_ALLOW_WS_ORIGIN='*'"
          [] k = 158 -> "export BOKEH_RESOURCES='cdn'"
          [] k = 159 -> "export VISUS_CACHE=/tmp/visus-cache/nsdf-services/somospie"
          [] k = 162 -> "export VISUS_CPP_VERBOSE=1"
          [] k = 163 -> "export VISUS_NETSERVICE_VERBOSE=1"
          [] k = 164 -> "export VISUS_VERBOSE_DISKACCESS=1"
          [] k = 167 -> "Setup completed."]

Following ==
    [k \in DOMAIN Echoed |->
        CASE k = 148 -> 149
          [] k = 151 -> 152
          [] k = 159 -> 162
          [] k = 167 -> 169
          [] OTHER -> k + 1]

\* The script has no `set -e`: a command that fails changes nothing and the
\* shell goes on with the next line.
Run(k, next, s) ==
    /\ install.line = k
    /\ install' = [s EXCEPT !.line = next]
    /\ UNCHANGED <<fs, imported, data_file, actual_data, metadata, vmin, vmax,
                   cell, stdout, figure, raised, failed, setup, raster,
                   release>>

\* DIR="openvisuspy"
\* if [ -d "$DIR" ]; then
TestDir ==
    Run(145, IF install.dir # "absent" THEN 148 ELSE 151, install)

\* echo "..."
Echo ==
    \E k \in DOMAIN Echoed :
        Run(k, Following[k],
            [install EXCEPT
                 !.out = Append(@, Echoed[k]),
                 !.once = IF k = 167 /\ ~@.ended
                          THEN [ended |-> TRUE, dir |-> install.dir,
                                bashrc |-> install.bashrc]
                          ELSE @])

\* rm -rf "$DIR"
RemoveDir ==
    \E done \in BOOLEAN :
        Run(149, 151, [install EXCEPT !.dir = IF done THEN "absent" ELSE @])

\* git clone --single-branch -b nsdf-ahm https://github.com/sci-visus/openvisuspy.git
Clone ==
    \E done \in Outcomes(install.dir = "absent") :
        Run(152, 153, [install EXCEPT !.dir = IF done THEN "checkout" ELSE @])

\* cd  openvisuspy
Cd ==
    Run(153, 155,
        [install EXCEPT
             !.cwd = IF install.dir # "absent" THEN "openvisuspy" ELSE @])

\* The line `export name=$name:$(pwd)/src`, written with the directory the
\* shell was in.
ExportLine(name, cwd) == [name |-> name, dir |-> cwd]

\* echo "export PATH=\$PATH:$(pwd)/src" >> ~/.bashrc
AppendPath ==
    Run(155, 156,
        [install EXCEPT
             !.bashrc = Append(@, ExportLine("PATH", install.cwd))])

\* echo "export PYTHONPATH=\$PYTHONPATH:$(pwd)/src" >> ~/.bashrc
AppendPythonPath ==
    Run(156, 157,
        [install EXCEPT
             !.bashrc = Append(@, ExportLine("PYTHONPATH", install.cwd))])

\* The shell's variables after it has executed the lines of ~/.bashrc from
\* the i-th on.
RECURSIVE Sourced(_, _, _)
Sourced(env, bashrc, i) ==
    IF i > Len(bashrc) THEN env
    ELSE With([env EXCEPT
                   !.exported = @ \cup {bashrc[i].name},
                   ![bashrc[i].name] = Append(@, bashrc[i].dir)],
              LAMBDA e : Sourced(e, bashrc, i + 1))

\* . ~/.bashrc
\* A ~/.bashrc that returns at once in a shell that is not interactive
\* executes none of the appended lines.
SourceBashrc ==
    \E interactive_only \in BOOLEAN :
        Run(165, 167,
            [install EXCEPT
                 !.env = IF interactive_only THEN @
                         ELSE Sourced(@, install.bashrc, 1)])

\* ./setup_openvisuspy.sh once more, in the same directory: a new shell, the
\* files as the run before left them.
RunAgain ==
    /\ install.runs < MaxRuns
    /\ Run(169, 145,
           [install EXCEPT
                !.runs = @ + 1, !.cwd = "start", !.out = <<>>,
                !.env = [exported |-> {}, PATH |-> <<>>, PYTHONPATH |-> <<>>]])

\* WORKDIR /app/openvisuspy
\* RUN echo "export PATH=\$PATH:$(pwd)/src" >> ~/.bashrc && \
\*     echo "export PYTHONPATH=\$PYTHONPATH:$(pwd)/src" >> ~/.bashrc && \
\*     echo "export BOKEH_ALLOW_WS_ORIGIN='*'" && ... && . ~/.bashrc
\* One step of the build; its shell ends with the step, the files stay.
DockerRun ==
    /\ ~install.image.built
    /\ \E interactive_only \in BOOLEAN :
        LET lines == <<ExportLine("PATH", "openvisuspy"),
                       ExportLine("PYTHONPATH", "openvisuspy")>>
        IN  install' = [install EXCEPT
                            !.image.built = TRUE,
                            !.image.bashrc = lines,
                            !.image.out = <<Echoed[157], Echoed[158],
                                            Echoed[159], Echoed[162],
                                            Echoed[163], Echoed[164]>>,
                            !.image.env = IF interactive_only THEN @
                                          ELSE Sourced(@, lines, 1)]
    /\ UNCHANGED <<fs, imported, data_file, actual_data, metadata, vmin, vmax,
                   cell, stdout, figure, raised, failed, setup, raster,
                   release>>

InstallInit ==
    /\ KernelStart
    /\ setup = Script(DefaultPort)
    /\ raster = NoBlock
    /\ \E dir \in {"absent", "checkout", "other"} : install = Installer(dir)
    /\ release = NotReleased

InstallNext ==
    \/ TestDir
    \/ Echo
    \/ RemoveDir
    \/ Clone
    \/ Cd
    \/ AppendPath
    \/ AppendPythonPath
    \/ SourceBashrc
    \/ RunAgain
    \/ DockerRun

InstallSpec == InstallInit /\ [][InstallNext]_vars

\* --------------------------------------------------------------------------
\* openvisuspy: scripts/new_tag.sh
\* --------------------------------------------------------------------------

\* The script has no `set -e`: a command that fails changes nothing and the
\* shell goes on with the next line.
Do(k, next, s) ==
    /\ release.line = k
    /\ release' = [s EXCEPT !.line = next]
    /\ UNCHANGED <<fs, imported, data_file, actual_data, metadata, vmin, vmax,
                   cell, stdout, figure, raised, failed, setup, raster,
                   install>>

\* TAG=$(python3 scripts/new_tag.py) && echo ${TAG}
\* A new_tag.py that fails prints nothing: TAG is empty and echo is skipped.
ComputeTag ==
    \E done \in BOOLEAN :
        Do(6, 8, [release EXCEPT !.TAG = IF done THEN "tag" ELSE "",
                                 !.out = IF done THEN Append(@, "tag") ELSE @])

\* git commit -a -m "New tag ($TAG)"
GitCommit ==
    \E done \in Outcomes(release.dirty) :
        Do(8, 9, [release EXCEPT !.commits = IF done THEN Append(@, release.TAG)
                                             ELSE @,
                                 !.dirty = IF done THEN FALSE ELSE @])

\* git tag -a $TAG -m "$TAG"
\* With TAG empty the command names no tag and creates none.
GitTag ==
    \E done \in Outcomes(release.TAG # "") :
        Do(9, 10, [release EXCEPT !.tags = IF done THEN @ \cup {release.TAG}
                                           ELSE @])

\* git push origin $TAG
\* With TAG empty this is `git push origin`, which pushes the branch; a tag
\* that was not created cannot be pushed.
GitPushTag ==
    \E done \in Outcomes(release.TAG = "" \/ release.TAG \in release.tags) :
        Do(10, 11,
           [release EXCEPT
                !.origin = IF ~done THEN @
                           ELSE IF release.TAG = ""
                           THEN [@ EXCEPT !.commits = release.commits]
                           ELSE [@ EXCEPT !.tags = @ \cup {release.TAG}],
                !.pushes = IF done THEN @ + 1 ELSE @])

\* git push origin
GitPush ==
    \E done \in BOOLEAN :
        Do(11, 13,
           [release EXCEPT
                !.origin = IF done THEN [@ EXCEPT !.commits = release.commits]
                           ELSE @,
                !.pushes = IF done THEN @ + 1 ELSE @])

\* rm -f dist/*
CleanDist ==
    \E done \in BOOLEAN :
        Do(13, 14, [release EXCEPT !.dist = IF done THEN {} ELSE @])

\* python -m build .
Build ==
    \E done \in BOOLEAN :
        Do(14, 15, [release EXCEPT !.dist = IF done THEN @ \cup {"built"} ELSE @,
                                   !.built = done])

\* python -m twine upload ... --skip-existing "dist/*.whl" --verbose
\* twine uploads the wheels it finds in dist.
Upload ==
    \E done \in Outcomes(release.dist # {}) :
        Do(15, 16, [release EXCEPT !.index = IF done THEN @ \cup release.dist
                                             ELSE @])

ReleaseInit ==
    /\ KernelStart
    /\ setup = Script(DefaultPort)
    /\ raster = NoBlock
    /\ install = NotInstalled
    /\ \E dirty \in BOOLEAN, dist \in {{}, {"stale"}} :
           release = Checkout(dirty, dist)

ReleaseNext ==
    \/ ComputeTag
    \/ GitCommit
    \/ GitTag
    \/ GitPushTag
    \/ GitPush
    \/ CleanDist
    \/ Build
    \/ Upload

ReleaseSpec == ReleaseInit /\ [][ReleaseNext]_vars

\* --------------------------------------------------------------------------
\* What an executed cell shows
\* --------------------------------------------------------------------------

Printed(out, msg) == \E i \in 1..Len(out) : out[i] = msg

\* The values printed on the lines that carry a label.
StatValues(out, label) ==
    {out[i].value :
        i \in {j \in 1..Len(out) : out[j].kind = "stat" /\ out[j].label = label}}

Reported(out, label) == CHOOSE v \in StatValues(out, label) : TRUE

AllReported(out) ==
    \A label \in {"Maximum slope value", "Minimum slope value",
                  "Average slope value", "Standard deviation of slope values"} :
        Cardinality(StatValues(out, label)) = 1

\* What the path holds on a disk.
FileAt(disk, file) == Contents[disk[file.path]]

HasMember(f, name) == f.kind = "npz" /\ name \in DOMAIN f.members

\* The Subregion Archive format: both members, data a non-empty grid of two
\* dimensions, lon_lat 2 by 2 with each row in order.
WellFormedArchive(f) ==
    /\ HasMember(f, "data") /\ HasMember(f, "lon_lat")
    /\ Len(f.members.data.shape) = 2
    /\ Len(f.members.data.vals) > 0
    /\ f.members.lon_lat.shape = <<2, 2>>
    /\ Leq(f.members.lon_lat.vals[1], f.members.lon_lat.vals[2])
    /\ Leq(f.members.lon_lat.vals[3], f.members.lon_lat.vals[4])

Samples(a) == {a.vals[i] : i \in 1..Len(a.vals)}

\* The largest and the smallest sample, by the order of the numbers.
TrueMax(a) == CHOOSE v \in Samples(a) : \A w \in Samples(a) : Leq(w, v)

TrueMin(a) == CHOOSE v \in Samples(a) : \A w \in Samples(a) : Leq(v, w)

\* The tick num / den is the number v.
TickIs(t, v) == t.num = ExMulInt(t.den, v)

\* The exception of the first step of a load that fails on this file.
LoadFailure(disk, file) ==
    With(NpLoad(disk, file), LAMBDA r :
        IF ~r.ok THEN r.exc
        ELSE IF ~GetItem(r.value, "data").ok THEN GetItem(r.value, "data").exc
        ELSE GetItem(r.value, "lon_lat").exc)

\* --------------------------------------------------------------------------
\* The load cell's failures
\* --------------------------------------------------------------------------

\* C1: whatever the kernel held, after the load cell has run with data_file
\* naming no existing file, no exception has left the cell and the cell has
\* printed one line, an error message.
MissingFileIsCaught ==
    (cell = "load" /\ data_file # Undefined
        /\ FileAt(fs, data_file).kind = "missing")
    => (raised = None /\ Len(stdout) = 1 /\ stdout[1].kind = "error")

\* The load cell has run on a missing file in a kernel that held data of an
\* earlier load, and has reported the missing path.
MissingFileReached ==
    /\ cell = "load" /\ imported /\ data_file # Undefined
    /\ FileAt(fs, data_file).kind = "missing"
    /\ actual_data # Undefined
    /\ Len(stdout) = 1 /\ stdout[1].kind = "error"
    /\ stdout[1].cause.about = data_file

\* C2: after the load cell has run, in a prepared kernel, on an archive that
\* holds `data` and no `lon_lat`, the cell has printed an error message whose
\* cause names lon_lat, and has not printed the success message.
MissingLonLatIsReported ==
    (cell = "load" /\ imported /\ data_file # Undefined
        /\ HasMember(FileAt(fs, data_file), "data")
        /\ ~HasMember(FileAt(fs, data_file), "lon_lat"))
    => /\ raised = None
       /\ ~Printed(stdout, MsgLoaded)
       /\ Len(stdout) = 1 /\ stdout[1].kind = "error"
       /\ stdout[1].cause.about = [name |-> "lon_lat"]

\* The load cell has failed on an archive with `data` and without `lon_lat`.
MissingLonLatReached ==
    /\ cell = "load" /\ imported /\ data_file # Undefined
    /\ HasMember(FileAt(fs, data_file), "data")
    /\ ~HasMember(FileAt(fs, data_file), "lon_lat")
    /\ Len(stdout) = 1 /\ stdout[1].kind = "error"

\* C3: whenever the load cell, in a prepared kernel with data_file bound, has
\* not printed its success message, it has printed one error message that
\* carries data_file and the text of the exception the failing step raised.
LoadFailureNamesFileAndCause ==
    (cell = "load" /\ imported /\ data_file # Undefined
        /\ ~Printed(stdout, MsgLoaded))
    => /\ Len(stdout) = 1 /\ stdout[1].kind = "error"
       /\ stdout[1].file = data_file
       /\ stdout[1].cause =
              [text  |-> LoadFailure(fs, data_file).text,
               about |-> LoadFailure(fs, data_file).about]

\* The load cell has failed on a file that is not an archive (a bare array)
\* and has printed the message with the IndexError's text.
NotAnArchiveReached ==
    /\ cell = "load" /\ imported /\ data_file # Undefined
    /\ FileAt(fs, data_file).kind = "npy"
    /\ Len(stdout) = 1 /\ stdout[1].kind = "error"
    /\ stdout[1].file = data_file
    /\ LoadFailure(fs, data_file).type = "IndexError"
    /\ stdout[1].cause.text = LoadFailure(fs, data_file).text

\* --------------------------------------------------------------------------
\* The render cells
\* --------------------------------------------------------------------------

\* A render cell has run its try block to the end.
Rendered(c) == cell = c /\ raised = None /\ figure # NoFigure /\ figure.shown

\* C4: when the load cell has printed its success message for a well-formed
\* archive and the min-max cell runs next, the maximum the cell reports is the largest sample of the
\* archive's `data`, and the last colorbar tick is that same number.
MinMaxReportsTrueMaximum ==
    [][(cell = "load" /\ stdout = <<MsgLoaded>> /\ cell' = "II"
           /\ WellFormedArchive(FileAt(fs, data_file)))
       => LET top == TrueMax(FileAt(fs, data_file).members.data)
          IN  /\ StatValues(stdout', "Maximum slope value") = {top}
              /\ figure' # NoFigure
              /\ Len(figure'.ticks) > 0
              /\ TickIs(figure'.ticks[Len(figure'.ticks)], top)]_vars

\* The min-max cell has rendered the three-sample grid of the archive
\* data_file names and has reported 844.0 as its maximum.
MinMaxMaximumReached ==
    /\ Rendered("II") /\ data_file # Undefined
    /\ HasMember(FileAt(fs, data_file), "data")
    /\ actual_data = FileAt(fs, data_file).members.data
    /\ Len(actual_data.vals) = 3
    /\ StatValues(stdout, "Maximum slope value") = {High}
    /\ TickIs(figure.ticks[Len(figure.ticks)], High)

\* C5: when the fixed-range cell has printed its success message, it ends
\* normally, the four statistics it reports are those of the data the
\* kernel holds, and the image range is 0 to 600.
FixedReportsCurrentStatistics ==
    (cell = "III" /\ Printed(stdout, MsgFixed))
    => /\ raised = None
       /\ figure.image.vmin = Norm(0, 0) /\ figure.image.vmax = Norm(600, 0)
       /\ StatValues(stdout, "Maximum slope value") = {TrueMax(actual_data)}
       /\ StatValues(stdout, "Minimum slope value") = {TrueMin(actual_data)}
       /\ StatValues(stdout, "Average slope value") = {NpMean(actual_data.vals)}
       /\ StatValues(stdout, "Standard deviation of slope values")
              = {NpStd(actual_data.vals)}

\* C6: when the load cell has printed its success message and a render cell
\* runs next, what the render cell prints, plots and raises is what it
\* prints, plots and raises in a kernel that has run nothing but the import
\* cell, the data_file cell and that load.
RenderDependsOnLoadedDataOnly ==
    [][(cell = "load" /\ stdout = <<MsgLoaded>> /\ cell' \in {"I", "II", "III"})
       => LET loaded == LoadCell(Fresh(data_file), fs).ns
              alone  == CASE cell' = "I"   -> ChallengeI(loaded)
                          [] cell' = "II"  -> ChallengeII(loaded)
                          [] cell' = "III" -> ChallengeIII(loaded)
          IN  stdout' = alone.out /\ figure' = alone.fig
                  /\ raised' = alone.raised]_vars

\* C7: a render cell that has run to the end, under any of the three
\* policies, has reported the minimum, the maximum, the mean and the
\* standard deviation of the data the kernel holds.
EveryPolicyReportsStatistics ==
    (\E c \in {"I", "II", "III"} : Rendered(c))
    => /\ StatValues(stdout, "Maximum slope value") = {TrueMax(actual_data)}
       /\ StatValues(stdout, "Minimum slope value") = {TrueMin(actual_data)}
       /\ StatValues(stdout, "Average slope value") = {NpMean(actual_data.vals)}
       /\ StatValues(stdout, "Standard deviation of slope values")
              = {NpStd(actual_data.vals)}

\* --------------------------------------------------------------------------
\* The statistics of the min-max cell
\* --------------------------------------------------------------------------

RECURSIVE ExactSum(_, _)
\* The sum of the first n samples as a number, nothing rounded.
ExactSum(a, n) == IF n = 0 THEN Zero ELSE ExAdd(ExactSum(a, n - 1), a[n])

\* numpy's float32 sum of the samples is their sum.
SumIsExact(a) == PairwiseSum(a.vals) = ExactSum(a.vals, Len(a.vals))

\* Every sample is the number c.
ConstantGrid(a, c) == \A i \in 1..Len(a.vals) : a.vals[i] = c

\* c, 2c ... nc are float32 numbers.
MultiplesExact(c, n) == \A k \in 1..n : Representable(ExMulInt(k, c))

Max == "Maximum slope value"

Min == "Minimum slope value"

Avg == "Average slope value"

Std == "Standard deviation of slope values"

\* C8 as stated: the statistics the min-max cell reports satisfy std >= 0
\* and min <= mean <= max.
StatisticsAreOrdered ==
    (Rendered("II") /\ AllReported(stdout))
    => /\ Leq(Zero, Reported(stdout, Std))
       /\ Leq(Reported(stdout, Min), Reported(stdout, Avg))
       /\ Leq(Reported(stdout, Avg), Reported(stdout, Max))

\* C8, amended: the statistics the min-max cell reports satisfy std >= 0
\* and min <= max; and min <= mean <= max when the float32 sum of the
\* samples is exact.
StatisticsAreOrderedWhenSumExact ==
    Rendered("II")
    => /\ AllReported(stdout)
       /\ Leq(Zero, Reported(stdout, Std))
       /\ Leq(Reported(stdout, Min), Reported(stdout, Max))
       /\ SumIsExact(actual_data)
              => /\ Leq(Reported(stdout, Min), Reported(stdout, Avg))
                 /\ Leq(Reported(stdout, Avg), Reported(stdout, Max))

\* The min-max cell has reported the statistics of a grid of three distinct
\* samples whose sum is exact: the mean lies strictly between min and max.
OrderedStatisticsReached ==
    /\ Rendered("II") /\ AllReported(stdout)
    /\ Len(actual_data.vals) = 3 /\ SumIsExact(actual_data)
    /\ Less(Reported(stdout, Min), Reported(stdout, Avg))
    /\ Less(Reported(stdout, Avg), Reported(stdout, Max))
    /\ Less(Zero, Reported(stdout, Std))

\* C9 as stated: for a constant grid of c the min-max cell reports
\* mean = c, std = 0, min = c and max = c.
ConstantGridStatistics ==
    (Rendered("II") /\ AllReported(stdout)
        /\ ConstantGrid(actual_data, actual_data.vals[1]))
    => /\ Reported(stdout, Avg) = actual_data.vals[1]
       /\ Reported(stdout, Std) = Zero
       /\ Reported(stdout, Min) = actual_data.vals[1]
       /\ Reported(stdout, Max) = actual_data.vals[1]

\* C9, amended: for a constant grid of n samples c the min-max cell reports
\* min = c and max = c; and mean = c and std = 0 when c, 2c ... nc are all
\* float32 numbers.
ConstantGridStatisticsWhenExact ==
    (Rendered("II") /\ ConstantGrid(actual_data, actual_data.vals[1]))
    => /\ AllReported(stdout)
       /\ Reported(stdout, Min) = actual_data.vals[1]
       /\ Reported(stdout, Max) = actual_data.vals[1]
       /\ MultiplesExact(actual_data.vals[1], Len(actual_data.vals))
              => /\ Reported(stdout, Avg) = actual_data.vals[1]
                 /\ Reported(stdout, Std) = Zero

\* The min-max cell has reported mean 5.0 and std 0 for the 4 by 4 grid of
\* 5.0.
ConstantGridReached ==
    /\ Rendered("II") /\ AllReported(stdout)
    /\ actual_data = Grid(4, 4, <<Five>>)
    /\ Reported(stdout, Avg) = Five
    /\ Reported(stdout, Std) = Zero

\* --------------------------------------------------------------------------
\* The colorbar ticks
\* --------------------------------------------------------------------------

\* Eight ticks from lo to hi, each as far from the one before as the second
\* is from the first.
EightTicks(ticks, lo, hi) ==
    /\ Len(ticks) = 8
    /\ TickIs(ticks[1], lo)
    /\ TickIs(ticks[8], hi)
    /\ \A i \in 1..7 :
          /\ ticks[i + 1].den = ticks[1].den
          /\ ExSub(ticks[i + 1].num, ticks[i].num)
                 = ExSub(ticks[2].num, ticks[1].num)

\* C10: once the min-max cell, respectively the fixed-range cell, has printed
\* its success message, the colorbar carries 8 evenly spaced ticks from the
\* lower to the upper end of the image's range, which is the smallest and
\* largest sample of the data, respectively 0 and 600.
TicksSpanTheRange ==
    /\ (cell = "II" /\ Printed(stdout, MsgMinMax))
       => /\ figure.image.vmin = TrueMin(actual_data)
          /\ figure.image.vmax = TrueMax(actual_data)
          /\ EightTicks(figure.ticks, figure.image.vmin, figure.image.vmax)
    /\ (cell = "III" /\ Printed(stdout, MsgFixed))
       => /\ figure.image.vmin = Norm(0, 0)
          /\ figure.image.vmax = Norm(600, 0)
          /\ EightTicks(figure.ticks, Norm(0, 0), Norm(600, 0))

\* The min-max cell has set its ticks on a grid from 12.25 to 844.0: the
\* second tick is 917.5 / 7.
TicksReached ==
    /\ cell = "II" /\ Printed(stdout, MsgMinMax)
    /\ figure.image.vmin = Low /\ figure.image.vmax = High
    /\ Len(figure.ticks) = 8
    /\ figure.ticks[2] = [num |-> Norm(1835, -1), den |-> 7]

\* --------------------------------------------------------------------------
\* After a failure
\* --------------------------------------------------------------------------

\* C11: a cell that fails prints nothing after its error message and does
\* not reach plt.show(); and a load cell run after some earlier cell failed,
\* in a prepared kernel whose data_file names an archive with both members,
\* prints the success message and binds actual_data and metadata to that
\* archive's members, as it does in a kernel that has run nothing else.
KernelUsableAfterFailure ==
    /\ (\E i \in 1..Len(stdout) : stdout[i].kind = "error")
       => /\ stdout[Len(stdout)].kind = "error"
          /\ \A i \in 1..(Len(stdout) - 1) : stdout[i].kind # "error"
          /\ figure # NoFigure => ~figure.shown
    /\ (cell = "load" /\ failed /\ imported /\ data_file # Undefined
          /\ HasMember(FileAt(fs, data_file), "data")
          /\ HasMember(FileAt(fs, data_file), "lon_lat"))
       => /\ stdout = <<MsgLoaded>> /\ raised = None
          /\ actual_data = FileAt(fs, data_file).members.data
          /\ metadata = FileAt(fs, data_file).members.lon_lat
          /\ actual_data = LoadCell(Fresh(data_file), fs).ns.actual_data
          /\ metadata = LoadCell(Fresh(data_file), fs).ns.metadata

\* A load has succeeded after an earlier cell had failed, in a kernel that
\* still holds the vmin of data loaded before.
ReissuedLoadReached ==
    /\ cell = "load" /\ failed /\ stdout = <<MsgLoaded>>
    /\ vmin # Undefined
    /\ actual_data = FileAt(fs, data_file).members.data
    /\ Len(actual_data.vals) > 0
    /\ vmin # TrueMin(actual_data)

\* --------------------------------------------------------------------------
\* Render cells on malformed shapes
\* --------------------------------------------------------------------------

\* Shapes on which a statement of a render cell raises: data imshow does not
\* take, bounds without a second dimension, row or column.
Unusable(data, bounds) ==
    \/ ~ImageShape(data.shape)
    \/ Len(bounds.shape) # 2
    \/ bounds.shape[1] < 2
    \/ bounds.shape[2] < 2

ArchiveIsNeverWritten ==
    \A p \in Paths : FileAt(fs, p) = FileAt(Disk, p)

\* An archive has been loaded and rendered, after an earlier failure, and
\* still holds the data the kernel read from it.
ArchiveReadReached ==
    /\ Rendered("II") /\ failed /\ data_file # Undefined
    /\ HasMember(FileAt(fs, data_file), "data")
    /\ FileAt(fs, data_file).members.data = actual_data
    /\ FileAt(fs, data_file).members.lon_lat = metadata

\* --------------------------------------------------------------------------
\* The axes and the image
\* --------------------------------------------------------------------------

\* C14: in a figure a render cell has shown for 2 by 2 bounds, the horizontal
\* axis is labelled "Longitude (Degrees)" and spans row 1 of lon_lat, the
\* vertical axis is labelled "Latitude (Degrees)" and spans row 0, the image
\* extent is (left, right, bottom, top) = (row 1, row 0), and the origin is
\* "lower".
AxesSpanTheirBounds ==
    ((\E c \in {"I", "II", "III"} : Rendered(c)) /\ metadata.shape = <<2, 2>>)
    => /\ figure.xlabel = "Longitude (Degrees)"
       /\ figure.xlim = <<metadata.vals[3], metadata.vals[4]>>
       /\ figure.ylabel = "Latitude (Degrees)"
       /\ figure.ylim = <<metadata.vals[1], metadata.vals[2]>>
       /\ figure.image.extent = <<metadata.vals[3], metadata.vals[4],
                                  metadata.vals[1], metadata.vals[2]>>
       /\ figure.image.origin = "lower"

\* C15: an archive for which the load cell has printed its success message
\* is well formed: data a non-empty grid of two dimensions, lon_lat 2 by 2
\* with lon_lat[0][0] <= lon_lat[0][1] and lon_lat[1][0] <= lon_lat[1][1].
AcceptedArchiveIsWellFormed ==
    (cell = "load" /\ Printed(stdout, MsgLoaded))
    => WellFormedArchive(FileAt(fs, data_file))

\* The kernel's names with vmin and vmax unbound.
WithoutRange == [Kernel EXCEPT !.vmin = Undefined, !.vmax = Undefined]

\* C16: the image of the default-range cell carries no vmin and no vmax, and
\* the figure the cell builds is the one it builds in the same kernel with
\* vmin and vmax unbound.
DefaultRangeIsUnset ==
    /\ (cell = "I" /\ figure # NoFigure /\ figure.image # None)
       => (figure.image.vmin = None /\ figure.image.vmax = None)
    /\ ChallengeI(Kernel).fig = ChallengeI(WithoutRange).fig
    /\ ChallengeI(Kernel).out = ChallengeI(WithoutRange).out

\* The default-range cell has shown its figure in a kernel that holds the
\* vmin and vmax of an earlier min-max cell.
DefaultRangeReached ==
    /\ Rendered("I") /\ vmin # Undefined /\ vmax # Undefined
    /\ figure.image.vmin = None /\ figure.image.vmax = None

\* --------------------------------------------------------------------------
\* The colorbar
\* --------------------------------------------------------------------------

\* C17: a colorbar a render cell has created has fraction 46 rows / (1000
\* columns) and pad 4 / 100, for the rows and columns of the data the kernel
\* holds; and a render cell run on a grid with no columns creates no
\* colorbar, prints the error message as its last line and does not reach
\* plt.show(), the error being the division by zero in the default-range
\* and the fixed-range cell.
ColorbarFollowsAspect ==
    /\ (cell \in {"I", "II", "III"} /\ figure # NoFigure
          /\ figure.colorbar # None)
       => /\ figure.colorbar.fraction
                 = [num |-> 46 * actual_data.shape[1],
                    den |-> 1000 * actual_data.shape[2]]
          /\ figure.colorbar.pad = [num |-> 4, den |-> 100]
    /\ (cell \in {"I", "II", "III"} /\ imported /\ metadata # Undefined
          /\ actual_data # Undefined /\ Len(actual_data.shape) = 2
          /\ metadata.shape = <<2, 2>> /\ actual_data.shape[2] = 0)
       => /\ raised = None
          /\ Len(stdout) > 0 /\ stdout[Len(stdout)].kind = "error"
          /\ figure # NoFigure
                 => (figure.colorbar = None /\ ~figure.shown)
          /\ cell \in {"I", "III"}
                 => stdout[Len(stdout)].cause.text = "float division by zero"

\* The min-max cell has shown a colorbar of fraction 0.046 * 3 / 1 for a
\* grid of three rows and one column.
ColorbarReached ==
    /\ Rendered("II") /\ actual_data.shape = <<3, 1>>
    /\ figure.colorbar.fraction = [num |-> 138, den |-> 1000]

\* C18: when every command of setup.sh has succeeded, the dashboard is served
\* on the port written on the script's first line (8989 unless the line was
\* edited) and on no other; a dashboard served at all is served on that port,
\* so editing the first line alone moves it.
ServedOnFirstLinePort ==
    /\ setup.serving # 0 => setup.serving = setup.first
    /\ (setup.line = 15 /\ setup.ok) => setup.serving = setup.first

\* The script ran to its end without a failure on an edited first line, and
\* the dashboard is up on the edited port.
EditedPortReached ==
    /\ setup.line = 15
    /\ setup.ok
    /\ setup.first = 8080
    /\ setup.serving = 8080

\* --------------------------------------------------------------------------
\* The kernel's variables across loads
\* --------------------------------------------------------------------------

\* C19: actual_data and metadata are both undefined or are the `data` and the
\* `lon_lat` of one archive: no load binds one without the other.
DataAndMetadataFromOneArchive ==
    \/ actual_data = Undefined /\ metadata = Undefined
    \/ \E i \in 1..Len(Contents) :
           /\ HasMember(Contents[i], "data") /\ HasMember(Contents[i], "lon_lat")
           /\ actual_data = Contents[i].members.data
           /\ metadata = Contents[i].members.lon_lat

\* --------------------------------------------------------------------------
\* The messages of a render cell
\* --------------------------------------------------------------------------

\* C20: a render cell never prints both its success message and the error
\* message in one execution.
SuccessAndErrorExclusive ==
    cell \in {"I", "II", "III"}
    => ~ /\ \E i \in 1..Len(stdout) :
               stdout[i] \in {MsgDefault, MsgMinMax, MsgFixed}
         /\ \E i \in 1..Len(stdout) : stdout[i].kind = "error"

\* --------------------------------------------------------------------------
\* Render cells before any load
\* --------------------------------------------------------------------------

\* The load cell binds metadata in its last statement that can raise, and
\* nothing else binds it: it is unbound exactly while no load has succeeded.
NoLoadSucceeded == metadata = Undefined

\* C21: while no load has succeeded, a render cell prints the error message,
\* prints no success message and builds no figure.
RenderWithoutLoadIsReported ==
    (cell \in {"I", "II", "III"} /\ NoLoadSucceeded)
    => /\ \E i \in 1..Len(stdout) : stdout[i].kind = "error"
       /\ \A i \in 1..Len(stdout) :
              stdout[i] \notin {MsgDefault, MsgMinMax, MsgFixed}
       /\ figure = NoFigure

\* --------------------------------------------------------------------------
\* The default-range message
\* --------------------------------------------------------------------------

\* C22: a cell that has printed the default-range success message has built
\* an image without vmin and vmax before printing it.
DefaultMessageFollowsDefaultImage ==
    Printed(stdout, MsgDefault)
    => /\ figure # NoFigure
       /\ figure.image # None
       /\ figure.image.vmin = None
       /\ figure.image.vmax = None

\* --------------------------------------------------------------------------
\* The range the fixed-range cell names
\* --------------------------------------------------------------------------

\* The numbers written in TitleFixed, "(Range 0 to 3000)", and in MsgFixed,
\* "with the range 0 to 3000."
RangeNamed == [lo |-> Norm(0, 0), hi |-> Norm(3000, 0)]

\* C23: when the fixed-range cell has titled its plot and printed its success
\* message, the range both name is the range of the image and runs from the
\* first to the last colorbar tick.
NamedRangeIsApplied ==
    (cell = "III" /\ Printed(stdout, MsgFixed) /\ figure.title = TitleFixed)
    => /\ figure.image.vmin = RangeNamed.lo
       /\ figure.image.vmax = RangeNamed.hi
       /\ TickIs(figure.ticks[1], RangeNamed.lo)
       /\ TickIs(figure.ticks[NumTicks], RangeNamed.hi)

\* --------------------------------------------------------------------------
\* The pixel function and the no-data value
\* --------------------------------------------------------------------------

\* The values of the sources at pixel p, and those that are not the no-data
\* value, in the order of the sources.
SourcesAt(in_ar, p) == [s \in 1..Len(in_ar) |-> in_ar[s][p]]

ValidAt(in_ar, p) == SelectSeq(SourcesAt(in_ar, p), LAMBDA v : v # NoData)

\* The mean of the values, as a float32 number.
MeanOf(vals) == FDivInt(ExactSum(vals, Len(vals)), Len(vals))

Named ==
    {"BOKEH_ALLOW_WS_ORIGIN", "BOKEH_RESOURCES", "VISUS_CACHE",
     "VISUS_CPP_VERBOSE", "VISUS_NETSERVICE_VERBOSE",
     "VISUS_VERBOSE_DISKACCESS"}

\* The variable is exported in the shell or by a line of ~/.bashrc.
IsSet(name, env, bashrc) ==
    name \in env.exported \/ \E i \in 1..Len(bashrc) : bashrc[i].name = name

\* C25: once the script has printed "Setup completed.", and once the image's
\* openvisuspy step is built, each of the six named variables is set in the
\* shell or in ~/.bashrc, as PATH and PYTHONPATH are.
NamedVariablesAreSet ==
    /\ Printed(install.out, Echoed[167])
       => \A name \in Named \cup {"PATH", "PYTHONPATH"} :
              IsSet(name, install.env, install.bashrc)
    /\ install.image.built
       => \A name \in Named \cup {"PATH", "PYTHONPATH"} :
              IsSet(name, install.image.env, install.image.bashrc)

\* C26: at the end of every run the checkout and ~/.bashrc are as the first
\* run left them.
SetupIsIdempotent ==
    (install.line = 169 /\ install.once.ended)
    => /\ install.dir = install.once.dir
       /\ install.bashrc = install.once.bashrc

\* --------------------------------------------------------------------------
\* Publishing a release
\* --------------------------------------------------------------------------

\* C27: once the script is past the tag's creation with TAG empty, without
\* a commit or without the tag, origin receives nothing and nothing is
\* uploaded; and whatever is uploaded is uploaded after the build line.
PublishedOnlyAfterSuccess ==
    /\ (release.line > 9
           /\ (release.TAG = "" \/ release.commits = <<>>
                  \/ release.TAG \notin release.tags))
       => /\ release.origin = [commits |-> <<>>, tags |-> {}]
          /\ release.index = {}
    /\ release.index # {} => release.line > 14

====
